---- MODULE Spec2Model ----
(***************************************************************************)
(* A model of routx-python: the Python wrapper (src/routex/py.py) around   *)
(* the native routing library declared in src/routex/c.py.                 *)
(*                                                                         *)
(* The wrapper's methods are translated from py.py.  The native routines   *)
(* (the routex_ functions) are not in the sources; each is modelled from   *)
(* the written specification and named after its declaration in c.py.     *)
(* A value that crosses the boundary (a result, a structure field, an      *)
(* array element) is read as the value the native side stored.             *)
(*                                                                         *)
(* Coordinates: every node and every query position lies on one meridian   *)
(* (lon = 0).  On a meridian the great-circle distance is the latitude     *)
(* difference times the length of one latitude step, and that length is    *)
(* the unit of distance and of edge cost.                                  *)
(***************************************************************************)
EXTENDS Integers, Sequences, FiniteSets, TLC

(* ------------------------------ bounds -------------------------------- *)
\* largest latitude step of a node or of a query position
MaxLat == 2
\* largest edge cost a caller passes to set_edge
MaxCost == 2
\* largest small step limit passed to find_route (next to the default)
MaxLimit == 2
\* number of mutating calls (node and edge writes, ingestions) in one run
MaxOps == 2

(* ------------------------- program constants -------------------------- *)
\* py.py: DEFAULT_STEP_LIMIT
DEFAULT_STEP_LIMIT == 1000000

\* node ids the callers use directly; ids above are given out by ingestion
Ids == 1 .. 3
Lats == 0 .. MaxLat
Costs == {1, MaxCost}
Limits == {0, MaxLimit, DEFAULT_STEP_LIMIT}

Abs(x) == IF x < 0 THEN -x ELSE x

\* the elements of a sequence
Range(s) == {s[i] : i \in 1 .. Len(s)}

VARIABLES
    graph,    \* the nodes and edges behind Graph.handle
    alive,    \* FALSE once the Graph is released (Graph.__del__)
    tree,     \* the KDTree built from the graph, if any
    res,      \* the last call: its name, its arguments and what it did
    ops       \* mutating calls made so far

vars == <<graph, alive, tree, res, ops>>

(* ------------------------- records of py.py --------------------------- *)
\* py.py: class Node(NamedTuple)
Node(id, osm_id, lat, lon) == [id |-> id, osm_id |-> osm_id, lat |-> lat, lon |-> lon]

\* py.py: Node.is_canonical
is_canonical(n) == n.id = n.osm_id

\* py.py: Node.__bool__
Node_bool(n) == n.id # 0

\* py.py: class Edge(NamedTuple)
Edge(to, cost) == [to |-> to, cost |-> cost]

\* the node the native library returns for "absent" (id 0)
NoNode == Node(0, 0, 0, 0)

\* what a wrapper method does: it returns a value or raises an exception
Return(v) == [kind |-> "return", value |-> v]
Raise(exc, arg) == [kind |-> "raise", exc |-> exc, arg |-> arg]

\* a call of a method: its name, its arguments and how it ended
Call(op, args, out) == [op |-> op, args |-> args, out |-> out]

(* --------------------------- GeoDistance ------------------------------ *)
\* c.py: routex_earth_distance, on one meridian
routex_earth_distance(lat1, lon1, lat2, lon2) == Abs(lat1 - lat2)

(* ---------------------------- GraphStore ------------------------------ *)
\* A graph is [nodes, edges]: nodes maps the stored ids to their Node,
\* edges maps the same ids to the ordered sequence of outgoing Edges.
EmptyGraph == [nodes |-> << >>, edges |-> << >>]

\* c.py: routex_graph_new
routex_graph_new == EmptyGraph

\* c.py: routex_graph_get_node
routex_graph_get_node(g, id) ==
    IF id \in DOMAIN g.nodes THEN g.nodes[id] ELSE NoNode

\* c.py: routex_graph_set_node; an overwrite keeps the adjacency of the id
routex_graph_set_node(g, n) ==
    [graph |-> [nodes |-> [i \in DOMAIN g.nodes \cup {n.id} |->
                              IF i = n.id THEN n ELSE g.nodes[i]],
                edges |-> [i \in DOMAIN g.nodes \cup {n.id} |->
                              IF i \in DOMAIN g.edges THEN g.edges[i] ELSE << >>]],
     ret |-> n.id \in DOMAIN g.nodes]

\* c.py: routex_graph_delete_node; the node goes with its own outgoing
\* edges, edges of other nodes that point at it stay
routex_graph_delete_node(g, id) ==
    [graph |-> [nodes |-> [i \in DOMAIN g.nodes \ {id} |-> g.nodes[i]],
                edges |-> [i \in DOMAIN g.edges \ {id} |-> g.edges[i]]],
     ret |-> id \in DOMAIN g.nodes]

\* c.py: routex_graph_get_nodes with a null iterator: the node count
routex_graph_get_nodes(g) == Cardinality(DOMAIN g.nodes)

\* c.py: routex_graph_get_nodes with an iterator: the stored nodes, each
\* once (here by ascending id; the order is not part of the contract)
routex_graph_iterator(g) ==
    LET F[S \in SUBSET DOMAIN g.nodes] ==
            IF S = {} THEN << >>
            ELSE LET m == CHOOSE x \in S : \A y \in S : x <= y
                 IN  <<g.nodes[m]>> \o F[S \ {m}]
    IN  F[DOMAIN g.nodes]

\* c.py: routex_graph_iterator_next: the node at a position of the
\* iterator, the zero node once the iterator is exhausted
routex_graph_iterator_next(it, i) == IF i <= Len(it) THEN it[i] ELSE NoNode

\* c.py: routex_graph_get_edges
routex_graph_get_edges(g, from) ==
    IF from \in DOMAIN g.edges THEN g.edges[from] ELSE << >>

\* py.py: Graph.get_edge, "positive infinity when the edge does not exist"
Infinity == 1000000000

\* the position of the edge to `to` in a sequence of edges, 0 when none
EdgeIndex(es, to) ==
    IF \E i \in 1 .. Len(es) : es[i].to = to
    THEN CHOOSE i \in 1 .. Len(es) : es[i].to = to
    ELSE 0

\* c.py: routex_graph_get_edge
routex_graph_get_edge(g, from, to) ==
    LET es == routex_graph_get_edges(g, from)
        i == EdgeIndex(es, to)
    IN  IF i = 0 THEN Infinity ELSE es[i].cost

\* c.py: routex_graph_set_edge; an edge is kept only for a stored node, an
\* existing edge to the same target is replaced in place
routex_graph_set_edge(g, from, e) ==
    IF from \notin DOMAIN g.edges
    THEN [graph |-> g, ret |-> FALSE]
    ELSE LET es == g.edges[from]
             i == EdgeIndex(es, e.to)
             new == IF i = 0 THEN Append(es, e) ELSE [es EXCEPT ![i] = e]
         IN  [graph |-> [g EXCEPT !.edges[from] = new], ret |-> i # 0]

\* a sequence without its element at position i
RemoveAt(s, i) == [j \in 1 .. Len(s) - 1 |-> IF j < i THEN s[j] ELSE s[j + 1]]

\* c.py: routex_graph_delete_edge
routex_graph_delete_edge(g, from, to) ==
    LET es == routex_graph_get_edges(g, from)
        i == EdgeIndex(es, to)
    IN  IF i = 0
        THEN [graph |-> g, ret |-> FALSE]
        ELSE [graph |-> [g EXCEPT !.edges[from] = RemoveAt(es, i)], ret |-> TRUE]

\* the stored nodes that are canonical
CanonicalNodes(g) == {g.nodes[i] : i \in {j \in DOMAIN g.nodes : is_canonical(g.nodes[j])}}

\* the node of a set closest to a position, the smallest id among equals
Closest(S, lat, lon) ==
    CHOOSE n \in S : \A m \in S :
        LET dn == routex_earth_distance(lat, lon, n.lat, n.lon)
            dm == routex_earth_distance(lat, lon, m.lat, m.lon)
        IN  dn < dm \/ (dn = dm /\ n.id <= m.id)

\* c.py: routex_graph_find_nearest_node, a scan over the canonical nodes
routex_graph_find_nearest_node(g, lat, lon) ==
    IF CanonicalNodes(g) = {} THEN NoNode ELSE Closest(CanonicalNodes(g), lat, lon)

(* ------------------------------ KDTree -------------------------------- *)
\* A tree is a leaf or [pivot, left, right]; the pivot is a copy of a node.
KDLeaf == [leaf |-> TRUE]
KDBranch(p, l, r) == [leaf |-> FALSE, pivot |-> p, left |-> l, right |-> r]

\* the coordinate that splits at a depth: latitude, then longitude, in turn
KDAxis(n, depth) == IF depth % 2 = 0 THEN n.lat ELSE n.lon

\* the order the points are split in at a depth
KDBefore(a, b, depth) ==
    \/ KDAxis(a, depth) < KDAxis(b, depth)
    \/ KDAxis(a, depth) = KDAxis(b, depth) /\ a.id < b.id

RECURSIVE KDBuild(_, _)
\* the balanced tree over a set of points: the median is the pivot
KDBuild(S, depth) ==
    IF S = {} THEN KDLeaf
    ELSE LET p == CHOOSE x \in S :
                     Cardinality({y \in S : KDBefore(y, x, depth)}) = Cardinality(S) \div 2
         IN  KDBranch(p,
                      KDBuild({y \in S : KDBefore(y, p, depth)}, depth + 1),
                      KDBuild({y \in S : KDBefore(p, y, depth)}, depth + 1))

\* c.py: routex_kd_tree_new, a copy of the canonical nodes at the call
routex_kd_tree_new(g) == KDBuild(CanonicalNodes(g), 0)

RECURSIVE KDNearest(_, _, _, _, _)
\* the descent: the nearer side first, the other side only when the
\* splitting line is closer than the best point so far
KDNearest(t, lat, lon, depth, best) ==
    IF t.leaf THEN best
    ELSE LET p == t.pivot
             dp == routex_earth_distance(lat, lon, p.lat, p.lon)
             b1 == IF best.id = 0
                      \/ dp < routex_earth_distance(lat, lon, best.lat, best.lon)
                   THEN p ELSE best
             q == Node(0, 0, lat, lon)
             diff == KDAxis(q, depth) - KDAxis(p, depth)
             near == IF diff < 0 THEN t.left ELSE t.right
             far == IF diff < 0 THEN t.right ELSE t.left
             b2 == KDNearest(near, lat, lon, depth + 1, b1)
         IN  IF Abs(diff) <= routex_earth_distance(lat, lon, b2.lat, b2.lon)
             THEN KDNearest(far, lat, lon, depth + 1, b2)
             ELSE b2

\* c.py: routex_kd_tree_find_nearest_node, the id found or 0
routex_kd_tree_find_nearest_node(t, lat, lon) == KDNearest(t, lat, lon, 0, NoNode).id

(* ----------------------------- AStarRouter ---------------------------- *)
\* c.py: class RouteResult, a tagged union: type_ 0 is Ok (nodes, len),
\* 1 is InvalidReference (invalid_node_id), 2 is StepLimitExceeded
RouteOk(path) == [type_ |-> 0, nodes |-> path, len |-> Len(path), invalid_node_id |-> 0]
RouteInvalidReference(id) == [type_ |-> 1, nodes |-> << >>, len |-> 0, invalid_node_id |-> id]
RouteStepLimitExceeded == [type_ |-> 2, nodes |-> << >>, len |-> 0, invalid_node_id |-> 0]

\* A search state is <<node id, id of the node just departed>>; the second
\* component stays 0 when turn-arounds are not suppressed.
SearchState(node, before, wta) == IF wta THEN <<node, before>> ELSE <<node, 0>>

\* the search does not step back to the node just departed
IsTurnAround(st, to, wta) == wta /\ to = st[2]

\* the heuristic: the great-circle distance to the goal
Heuristic(n, goal) == routex_earth_distance(n.lat, n.lon, goal.lat, goal.lon)

\* the open entry popped next: the least f, the earliest pushed among equals
PopIndex(open) ==
    CHOOSE i \in 1 .. Len(open) : \A j \in 1 .. Len(open) :
        open[i].f < open[j].f \/ (open[i].f = open[j].f /\ i <= j)

\* the position of a state in the open sequence, 0 when it is not open
OpenIndex(open, st) ==
    IF \E i \in 1 .. Len(open) : open[i].st = st
    THEN CHOOSE i \in 1 .. Len(open) : open[i].st = st
    ELSE 0

\* a state pushed with a better cost replaces its older open entry
Push(open, entry) ==
    LET i == OpenIndex(open, entry.st)
    IN  Append(IF i = 0 THEN open ELSE RemoveAt(open, i), entry)

RECURSIVE RelaxEdges(_, _, _, _, _, _, _)
\* One expansion: the outgoing edges of the popped state in their stored
\* order.  An edge to an id that is not stored ends the search (bad is the
\* id); a state is pushed when it is reached at a lower cost than known.
RelaxEdges(g, goal, wta, item, es, i, acc) ==
    IF i > Len(es) \/ acc.bad # 0 THEN acc
    ELSE LET e == es[i]
             n == routex_graph_get_node(g, e.to)
             st == SearchState(e.to, item.st[1], wta)
             cost == item.g + e.cost
         IN  IF n.id = 0
             THEN [acc EXCEPT !.bad = e.to]
             ELSE IF IsTurnAround(item.st, e.to, wta)
                     \/ (st \in DOMAIN acc.known /\ acc.known[st] <= cost)
             THEN RelaxEdges(g, goal, wta, item, es, i + 1, acc)
             ELSE RelaxEdges(g, goal, wta, item, es, i + 1,
                      [open |-> Push(acc.open,
                                     [st |-> st, g |-> cost, f |-> cost + Heuristic(n, goal)]),
                       known |-> (st :> cost) @@ acc.known,
                       came |-> (st :> item.st) @@ acc.came,
                       bad |-> 0])

RECURSIVE ReconstructPath(_, _)
\* the node ids from the start to a state, along the recorded predecessors
ReconstructPath(came, st) ==
    IF st \in DOMAIN came
    THEN Append(ReconstructPath(came, came[st]), st[1])
    ELSE <<st[1]>>

RECURSIVE AStarLoop(_, _, _, _, _, _, _, _)
\* The search loop.  Every pop is an expansion and counts as a step; the
\* result carries the number of expansions made (steps), which the native
\* RouteResult does not hold.
AStarLoop(g, goal, wta, limit, open, known, came, steps) ==
    IF open = << >> THEN [result |-> RouteOk(<< >>), steps |-> steps]
    ELSE LET i == PopIndex(open)
             item == open[i]
         IN  IF steps + 1 > limit
             THEN [result |-> RouteStepLimitExceeded, steps |-> steps]
             ELSE IF item.st[1] = goal.id
             THEN [result |-> RouteOk(ReconstructPath(came, item.st)), steps |-> steps + 1]
             ELSE LET acc == RelaxEdges(g, goal, wta, item,
                                        routex_graph_get_edges(g, item.st[1]), 1,
                                        [open |-> RemoveAt(open, i), known |-> known,
                                         came |-> came, bad |-> 0])
                  IN  IF acc.bad # 0
                      THEN [result |-> RouteInvalidReference(acc.bad), steps |-> steps + 1]
                      ELSE AStarLoop(g, goal, wta, limit, acc.open, acc.known, acc.came,
                                     steps + 1)

\* The search with its endpoint check: the start is looked up first, then
\* the goal, before anything is expanded.
AStar(g, from, to, limit, wta) ==
    LET s == routex_graph_get_node(g, from)
        t == routex_graph_get_node(g, to)
        st == SearchState(from, 0, wta)
    IN  IF s.id = 0 THEN [result |-> RouteInvalidReference(from), steps |-> 0]
        ELSE IF t.id = 0 THEN [result |-> RouteInvalidReference(to), steps |-> 0]
        ELSE AStarLoop(g, t, wta, limit,
                       <<[st |-> st, g |-> 0, f |-> Heuristic(s, t)]>>,
                       (st :> 0), << >>, 0)

\* c.py: routex_find_route
routex_find_route(g, from, to, step_limit) == AStar(g, from, to, step_limit, FALSE).result

\* c.py: routex_find_route_without_turn_around
routex_find_route_without_turn_around(g, from, to, step_limit) ==
    AStar(g, from, to, step_limit, TRUE).result

(* ----------------------------- OsmIngestor ---------------------------- *)
\* An OSM document is [format, nodes, ways, relations, bad]: nodes maps an
\* OSM node id to its latitude step, a way is [nodes, tags] (tags a record
\* from key to value), a relation is a turn restriction [from, via, to,
\* kind] over way positions, and bad is the position of the first way that
\* cannot be parsed (0 when the document is well formed).
\* A profile is [name, penalties, access, disallow_motorroad,
\* disable_restrictions] as in py.py: OsmCustomProfile.

Max(S) == CHOOSE x \in S : \A y \in S : y <= x
Min(S) == CHOOSE x \in S : \A y \in S : x <= y

\* the access tags of the profile, least to most specific: the most
\* specific one the way carries decides
AccessAllowed(profile, tags) ==
    LET present == {i \in 1 .. Len(profile.access) : profile.access[i] \in DOMAIN tags}
    IN  present = {} \/ tags[profile.access[Max(present)]] \notin {"no", "private"}

\* py.py: OsmCustomProfile.penalties; the first rule whose key and value
\* both match gives the multiplier, 0 stands for "no rule matches"
WayPenalty(profile, tags) ==
    LET hits == {i \in 1 .. Len(profile.penalties) :
                    /\ profile.penalties[i].key \in DOMAIN tags
                    /\ tags[profile.penalties[i].key] = profile.penalties[i].value}
    IN  IF hits = {} THEN 0 ELSE profile.penalties[Min(hits)].penalty

\* a way is used when access is allowed, it is no forbidden motorroad and
\* a penalty rule matches
WayUsable(profile, tags) ==
    /\ AccessAllowed(profile, tags)
    /\ ~(profile.disallow_motorroad /\ "motorroad" \in DOMAIN tags /\ tags.motorroad = "yes")
    /\ WayPenalty(profile, tags) # 0

\* the general oneway tag (profiles named "foot" are not modelled)
WayIsOneway(tags) == "oneway" \in DOMAIN tags /\ tags.oneway = "yes"

\* a node of the document is created as a canonical node when it is missing
EnsureNode(g, doc, id) ==
    IF id \in DOMAIN g.nodes THEN g
    ELSE routex_graph_set_node(g, Node(id, id, doc.nodes[id], 0)).graph

\* the edge for one direction of a consecutive pair of a way
WayEdgeCost(g, a, b, penalty) ==
    routex_earth_distance(g.nodes[a].lat, g.nodes[a].lon, g.nodes[b].lat, g.nodes[b].lon)
        * penalty

RECURSIVE AddWayPairs(_, _, _, _, _)
\* the consecutive pairs of a usable way, from position i on
AddWayPairs(g, doc, way, profile, i) ==
    IF i >= Len(way.nodes) THEN g
    ELSE LET a == way.nodes[i]
             b == way.nodes[i + 1]
             g1 == EnsureNode(EnsureNode(g, doc, a), doc, b)
             c == WayEdgeCost(g1, a, b, WayPenalty(profile, way.tags))
             g2 == routex_graph_set_edge(g1, a, Edge(b, c)).graph
             g3 == IF WayIsOneway(way.tags) THEN g2
                   ELSE routex_graph_set_edge(g2, b, Edge(a, c)).graph
         IN  AddWayPairs(g3, doc, way, profile, i + 1)

RECURSIVE AddWays(_, _, _, _, _)
\* the ways at positions i .. last, in document order
AddWays(g, doc, profile, i, last) ==
    IF i > last THEN g
    ELSE AddWays(IF WayUsable(profile, doc.ways[i].tags)
                 THEN AddWayPairs(g, doc, doc.ways[i], profile, 1)
                 ELSE g,
                 doc, profile, i + 1, last)

\* the node of a way next to the via node, 0 when the way does not end there
NextToVia(way, via) ==
    IF Len(way.nodes) < 2 THEN 0
    ELSE IF way.nodes[1] = via THEN way.nodes[2]
    ELSE IF way.nodes[Len(way.nodes)] = via THEN way.nodes[Len(way.nodes) - 1]
    ELSE 0

\* the ids given to duplicates lie above every OSM node id of the document
NewNodeId(g, doc) == Max(DOMAIN doc.nodes \cup DOMAIN g.nodes) + 1

\* a mutant of the duplicate's edges: the via node's edges, all of them
DuplicateEdgesAll(es, to, kind) == es

\* the outgoing edges a duplicate of the via node gets from the via node's:
\* all but the forbidden one, or only the mandated one
DuplicateEdges(es, to, kind) ==
    LET keep == {i \in 1 .. Len(es) : IF kind = "no" THEN es[i].to # to ELSE es[i].to = to}
        F[i \in 0 .. Len(es)] ==
            IF i = 0 THEN << >>
            ELSE IF i \in keep THEN Append(F[i - 1], es[i]) ELSE F[i - 1]
    IN  F[Len(es)]

\* One turn restriction: a non-canonical duplicate of the via node takes
\* the edge that arrives from the from-way and leaves only where allowed.
ExpandRestriction(g, doc, profile, rel) ==
    LET fromWay == doc.ways[rel.from]
        toWay == doc.ways[rel.to]
        a == NextToVia(fromWay, rel.via)
        b == NextToVia(toWay, rel.via)
        dup == NewNodeId(g, doc)
    IN  IF \/ ~WayUsable(profile, fromWay.tags) \/ ~WayUsable(profile, toWay.tags)
           \/ a = 0 \/ b = 0
           \/ ~({a, b, rel.via} \subseteq DOMAIN g.nodes)
           \/ EdgeIndex(g.edges[a], rel.via) = 0
        THEN g
        ELSE LET n == Node(dup, rel.via, g.nodes[rel.via].lat, g.nodes[rel.via].lon)
                 g1 == routex_graph_set_node(g, n).graph
                 i == EdgeIndex(g1.edges[a], rel.via)
             IN  [g1 EXCEPT !.edges[dup] = DuplicateEdges(g.edges[rel.via], b, rel.kind),
                            !.edges[a][i] = Edge(dup, g1.edges[a][i].cost)]

RECURSIVE AddRestrictions(_, _, _, _)
AddRestrictions(g, doc, profile, i) ==
    IF i > Len(doc.relations) THEN g
    ELSE AddRestrictions(ExpandRestriction(g, doc, profile, doc.relations[i]),
                         doc, profile, i + 1)

\* c.py: class OsmOptions
OsmOptions(profile, format, bbox) == [profile |-> profile, file_format |-> format, bbox |-> bbox]

\* The ingestion of one document.  A forced format that is not the
\* document's fails before anything is read; a way that cannot be parsed
\* fails the call and what was added before it stays.
OsmIngest(g, options, doc) ==
    IF options.file_format # 0 /\ options.file_format # doc.format
    THEN [graph |-> g, ret |-> FALSE]
    ELSE IF doc.bad # 0
    THEN [graph |-> AddWays(g, doc, options.profile, 1, doc.bad - 1), ret |-> FALSE]
    ELSE LET g1 == AddWays(g, doc, options.profile, 1, Len(doc.ways))
         IN  [graph |-> IF options.profile.disable_restrictions THEN g1
                        ELSE AddRestrictions(g1, doc, options.profile, 1),
              ret |-> TRUE]

\* c.py: routex_graph_add_from_osm_file; the file holds the document
routex_graph_add_from_osm_file(g, options, file) == OsmIngest(g, options, file)

\* c.py: routex_graph_add_from_osm_memory
routex_graph_add_from_osm_memory(g, options, content, len) == OsmIngest(g, options, content)

(* ------------------------- the wrapper, py.py ------------------------- *)
\* c.py: the functions the loaded library is declared to export
LibExports ==
    {"routex_set_logging_callback", "routex_graph_new", "routex_graph_delete",
     "routex_graph_get_nodes", "routex_graph_iterator_next",
     "routex_graph_iterator_delete", "routex_graph_get_node", "routex_graph_set_node",
     "routex_graph_delete_node", "routex_graph_find_nearest_node",
     "routex_graph_get_edges", "routex_graph_get_edge", "routex_graph_set_edge",
     "routex_graph_delete_edge", "routex_graph_add_from_osm_file",
     "routex_graph_add_from_osm_memory", "routex_find_route",
     "routex_find_route_without_turn_around", "routex_route_result_delete",
     "routex_kd_tree_new", "routex_kd_tree_delete", "routex_kd_tree_find_nearest_node",
     "routex_earth_distance"}

\* py.py: _node_to_c
node_to_c(o) == [id |-> o.id, osm_id |-> o.osm_id, lat |-> o.lat, lon |-> o.lon]

\* py.py: _node_from_c
node_from_c(o) == Node(o.id, o.osm_id, o.lat, o.lon)

\* py.py: _edge_from_c
edge_from_c(o) == Edge(o.to, o.cost)

\* py.py: Graph.__getitem__
Graph_getitem(g, key) ==
    LET n == node_from_c(routex_graph_get_node(g, key))
    IN  IF n.id = 0 THEN Raise("KeyError", key) ELSE Return(n)

\* a mutant of Graph.__setitem__: the key is not compared with the id
Graph_setitem_unchecked(g, key, value) ==
    [graph |-> routex_graph_set_node(g, node_to_c(value)).graph, out |-> Return(0)]

\* a mutant of Graph.__setitem__: an overwrite done as delete, then set
Graph_setitem_replace(g, key, value) ==
    IF key # value.id
    THEN [graph |-> g, out |-> Raise("ValueError", key)]
    ELSE [graph |-> routex_graph_set_node(routex_graph_delete_node(g, key).graph,
                                          node_to_c(value)).graph,
          out |-> Return(0)]

\* py.py: Graph.__setitem__
Graph_setitem(g, key, value) ==
    IF key # value.id
    THEN [graph |-> g, out |-> Raise("ValueError", key)]
    ELSE [graph |-> routex_graph_set_node(g, node_to_c(value)).graph, out |-> Return(0)]

\* a mutant of Graph.__delitem__: the test of the native answer inverted
Graph_delitem_inverted(g, key) ==
    LET d == routex_graph_delete_node(g, key)
    IN  [graph |-> d.graph, out |-> IF d.ret THEN Raise("KeyError", key) ELSE Return(0)]

\* py.py: Graph.__delitem__
Graph_delitem(g, key) ==
    LET d == routex_graph_delete_node(g, key)
    IN  [graph |-> d.graph, out |-> IF ~d.ret THEN Raise("KeyError", key) ELSE Return(0)]

RECURSIVE IterLoop(_, _)
\* py.py: Graph.__iter__, the while loop: the ids yielded from a position
\* of the iterator on, up to the first node that is false
IterLoop(it, i) ==
    LET n == node_from_c(routex_graph_iterator_next(it, i))
    IN  IF ~Node_bool(n) THEN << >> ELSE <<n.id>> \o IterLoop(it, i + 1)

\* a mutant of Graph.__iter__: a node is read and dropped before the loop
Graph_iter_skip(g) == Return(IterLoop(routex_graph_iterator(g), 2))

\* py.py: Graph.__iter__, as the list of the ids it yields
Graph_iter(g) == Return(IterLoop(routex_graph_iterator(g), 1))

\* py.py: Graph.__len__
Graph_len(g) == Return(routex_graph_get_nodes(g))

\* a mutant of Graph.find_nearest_node: the node is returned untested
Graph_find_nearest_node_unchecked(g, lat, lon) ==
    Return(node_from_c(routex_graph_find_nearest_node(g, lat, lon)))

\* py.py: Graph.find_nearest_node
Graph_find_nearest_node(g, lat, lon) ==
    LET n == node_from_c(routex_graph_find_nearest_node(g, lat, lon))
    IN  IF ~Node_bool(n) THEN Raise("KeyError", 0) ELSE Return(n)

\* py.py: Graph.get_edges
Graph_get_edges(g, from) ==
    LET es == routex_graph_get_edges(g, from)
    IN  [i \in 1 .. Len(es) |-> edge_from_c(es[i])]

\* py.py: Graph.get_edge
Graph_get_edge(g, from, to) == routex_graph_get_edge(g, from, to)

\* py.py: Graph.set_edge
Graph_set_edge(g, from, to, cost) ==
    LET r == routex_graph_set_edge(g, from, Edge(to, cost))
    IN  [graph |-> r.graph, out |-> Return(r.ret)]

\* a mutant of Graph.delete_edge: missing_ok is not looked at
Graph_delete_edge_strict(g, from, to, missing_ok) ==
    LET r == routex_graph_delete_edge(g, from, to)
    IN  [graph |-> r.graph,
         out |-> IF ~r.ret THEN Raise("KeyError", <<from, to>>) ELSE Return(0)]

\* py.py: Graph.delete_edge
Graph_delete_edge(g, from, to, missing_ok) ==
    LET r == routex_graph_delete_edge(g, from, to)
    IN  [graph |-> r.graph,
         out |-> IF ~r.ret /\ ~missing_ok THEN Raise("KeyError", <<from, to>>) ELSE Return(0)]

\* py.py: Graph.find_route, the attribute of c.lib that is called
find_route_func(without_turn_around) ==
    IF without_turn_around THEN "routex_find_route_without_turn_around" ELSE "find_route"

\* a call of a function of c.lib by its name
lib_find_route(name, g, from, to, step_limit) ==
    IF name = "routex_find_route_without_turn_around"
    THEN routex_find_route_without_turn_around(g, from, to, step_limit)
    ELSE routex_find_route(g, from, to, step_limit)

\* a mutant of the Ok branch: the first element read at every index
route_nodes_first(r) == [i \in 1 .. r.len |-> r.nodes[1]]

\* a mutant of the Ok branch: the last element left out
route_nodes_short(r) == [i \in 1 .. r.len - 1 |-> r.nodes[i]]

\* py.py: Graph.find_route, the list built from an Ok result
route_nodes(r) == [i \in 1 .. r.len |-> r.nodes[i]]

\* py.py: Graph.find_route; a name c.lib does not export raises
\* AttributeError when the attribute is looked up, before any call
Graph_find_route(g, from, to, without_turn_around, step_limit) ==
    LET name == find_route_func(without_turn_around)
    IN  IF name \notin LibExports THEN Raise("AttributeError", 0)
        ELSE LET r == lib_find_route(name, g, from, to, step_limit)
             IN  IF r.type_ = 0 THEN Return(route_nodes(r))
                 ELSE IF r.type_ = 1 THEN Raise("KeyError", r.invalid_node_id)
                 ELSE IF r.type_ = 2 THEN Raise("StepLimitExceeded", 0)
                 ELSE Raise("RuntimeError", r.type_)

\* py.py: Graph.find_route, the calls of routex_route_result_delete: one in
\* the finally clause, which is entered once func has returned a result
route_result_deletes(g, from, to, without_turn_around, step_limit) ==
    IF find_route_func(without_turn_around) \notin LibExports THEN 0 ELSE 1

\* py.py: KDTree.build
KDTree_build(g) == [built |-> TRUE, root |-> routex_kd_tree_new(g)]

\* a mutant of KDTree.find_nearest_node: the graph is scanned at the query
KDTree_find_nearest_node_live(t, lat, lon) ==
    LET id == routex_graph_find_nearest_node(graph, lat, lon).id
    IN  IF id = 0 THEN Raise("KeyError", 0) ELSE Return(id)

\* py.py: KDTree.find_nearest_node
KDTree_find_nearest_node(t, lat, lon) ==
    LET id == routex_kd_tree_find_nearest_node(t.root, lat, lon)
    IN  IF id = 0 THEN Raise("KeyError", 0) ELSE Return(id)

\* a mutant of _osm_profile_to_c: the penalties are stored last to first
osm_profile_to_c_reversed(profile) ==
    [name |-> profile.name,
     penalties |-> [i \in 1 .. Len(profile.penalties) |->
                       profile.penalties[Len(profile.penalties) + 1 - i]],
     penalties_len |-> Len(profile.penalties),
     access |-> [i \in 1 .. Len(profile.access) |-> profile.access[i]],
     access_len |-> Len(profile.access),
     disallow_motorroad |-> profile.disallow_motorroad,
     disable_restrictions |-> profile.disable_restrictions]

\* py.py: _osm_profile_to_c for an OsmCustomProfile: every list is copied
\* element by element and its length is stored next to it
osm_profile_to_c(profile) ==
    [name |-> profile.name,
     penalties |-> [i \in 1 .. Len(profile.penalties) |->
                       [key |-> profile.penalties[i].key,
                        value |-> profile.penalties[i].value,
                        penalty |-> profile.penalties[i].penalty]],
     penalties_len |-> Len(profile.penalties),
     access |-> [i \in 1 .. Len(profile.access) |-> profile.access[i]],
     access_len |-> Len(profile.access),
     disallow_motorroad |-> profile.disallow_motorroad,
     disable_restrictions |-> profile.disable_restrictions]

\* py.py: _osm_options_to_c
osm_options_to_c(profile, format, bbox) ==
    OsmOptions(osm_profile_to_c(profile), format, [i \in 1 .. 4 |-> bbox[i]])

\* a mutant of Graph.add_from_osm_file: a failed call is undone
Graph_add_from_osm_file_rollback(g, filename, profile, format, bbox) ==
    LET r == routex_graph_add_from_osm_file(g, osm_options_to_c(profile, format, bbox), filename)
    IN  IF ~r.ret THEN [graph |-> g, out |-> Raise("OsmLoadingError", 0)]
        ELSE [graph |-> r.graph, out |-> Return(0)]

\* py.py: Graph.add_from_osm_file
Graph_add_from_osm_file(g, filename, profile, format, bbox) ==
    LET r == routex_graph_add_from_osm_file(g, osm_options_to_c(profile, format, bbox), filename)
    IN  [graph |-> r.graph, out |-> IF ~r.ret THEN Raise("OsmLoadingError", 0) ELSE Return(0)]

\* py.py: Graph.add_from_osm_memory
Graph_add_from_osm_memory(g, mv, profile, format, bbox) ==
    LET r == routex_graph_add_from_osm_memory(g, osm_options_to_c(profile, format, bbox),
                                              mv, Len(mv.ways))
    IN  [graph |-> r.graph, out |-> IF ~r.ret THEN Raise("OsmLoadingError", 0) ELSE Return(0)]

(* --------------------------- the state machine ------------------------ *)
NoTree == [built |-> FALSE, root |-> KDLeaf]

\* py.py: Graph.__init__
Init ==
    /\ graph = routex_graph_new
    /\ alive = TRUE
    /\ tree = NoTree
    /\ res = Call("init", << >>, Return(0))
    /\ ops = 0

\* py.py: OsmFormat.UNKNOWN and OsmFormat.XML
FormatUnknown == 0
FormatXml == 1
\* py.py: OsmFormat.PBF
FormatPbf == 4

\* the default bbox of add_from_osm_file: no filter
NoBBox == <<0, 0, 0, 0>>

\* a custom profile for cars
CarProfile ==
    [name |-> "car",
     penalties |-> <<[key |-> "highway", value |-> "primary", penalty |-> 1],
                     [key |-> "highway", value |-> "residential", penalty |-> 2],
                     [key |-> "surface", value |-> "paved", penalty |-> 3]>>,
     access |-> <<"access", "motor_vehicle">>,
     disallow_motorroad |-> TRUE,
     disable_restrictions |-> FALSE]

Way(nodes, tags) == [nodes |-> nodes, tags |-> tags]

\* nodes 1, 2, 3 in a line, one two-way road through them
LineDoc ==
    [format |-> FormatXml, nodes |-> <<0, 1, 2>>,
     ways |-> <<Way(<<1, 2, 3>>, [highway |-> "primary"])>>,
     relations |-> << >>, bad |-> 0]

\* A = 1, B = 2, C = 3 and the via node 4: roads A-via, via-B and via-C,
\* and a restriction that forbids via -> B when via is entered from A
TurnDoc ==
    [format |-> FormatXml, nodes |-> <<0, 2, 2, 1>>,
     ways |-> <<Way(<<1, 4>>, [highway |-> "primary"]),
                Way(<<4, 2>>, [highway |-> "primary"]),
                Way(<<4, 3>>, [highway |-> "primary"])>>,
     relations |-> <<[from |-> 1, via |-> 4, to |-> 2, kind |-> "no"]>>, bad |-> 0]

\* two roads, the second of which cannot be parsed
BrokenDoc ==
    [format |-> FormatXml, nodes |-> <<0, 1, 2>>,
     ways |-> <<Way(<<1, 2>>, [highway |-> "primary"]),
                Way(<<2, 3>>, [highway |-> "primary"])>>,
     relations |-> << >>, bad |-> 2]

\* roads with other tags: a one-way residential road that is also paved,
\* a footway (no rule of the profile), a closed road and a motorroad
TagsDoc ==
    [format |-> FormatPbf, nodes |-> <<0, 1, 2>>,
     ways |-> <<Way(<<1, 2>>, [surface |-> "paved", highway |-> "residential",
                                oneway |-> "yes"]),
                Way(<<2, 3>>, [highway |-> "footway"]),
                Way(<<3, 1>>, [highway |-> "primary", access |-> "yes",
                                motor_vehicle |-> "no"]),
                Way(<<3, 2>>, [highway |-> "primary", motorroad |-> "yes"])>>,
     relations |-> << >>, bad |-> 0]

Docs == {LineDoc, TurnDoc, BrokenDoc, TagsDoc}

\* the node values a caller writes under an id
NodeValues(id) == {Node(id, id, MaxLat, 0), Node(id, 1, 0, 0)}

\* the calls that only read; a run is a sequence of mutating calls that
\* ends with at most one reading call, whose outcome res then holds
QueryOps == {"find_route", "find_nearest_node", "kd_find_nearest_node",
             "getitem", "iter", "len"}
Running == res.op \notin QueryOps

Mutate(op, args, r) ==
    /\ Running
    /\ alive
    /\ ops < MaxOps
    /\ graph' = r.graph
    /\ res' = Call(op, args, r.out)
    /\ ops' = ops + 1
    /\ UNCHANGED <<alive, tree>>

Query(op, args, out) ==
    /\ Running
    /\ res' = Call(op, args, out)
    /\ UNCHANGED <<graph, alive, tree, ops>>

\* a node value whose id is not the key it is written under
Mismatched(key) == Node((key % Cardinality(Ids)) + 1, key, 0, 0)

\* graph[key] = value
SetItem ==
    \E key \in Ids : \E value \in NodeValues(key) \cup {Mismatched(key)} :
        Mutate("setitem", <<key, value>>, Graph_setitem(graph, key, value))

\* del graph[key]
DelItem ==
    \E key \in Ids : Mutate("delitem", <<key>>, Graph_delitem(graph, key))

\* graph.set_edge(from, to, cost)
SetEdge ==
    \E from \in Ids : \E to \in Ids : \E cost \in Costs :
        /\ from # to
        /\ Mutate("set_edge", <<from, to, cost>>, Graph_set_edge(graph, from, to, cost))

\* graph.delete_edge(from, to, missing_ok)
DeleteEdge ==
    \E from \in Ids : \E to \in Ids : \E missing_ok \in BOOLEAN :
        /\ from # to
        /\ Mutate("delete_edge", <<from, to, missing_ok>>,
                  Graph_delete_edge(graph, from, to, missing_ok))

\* graph.find_route(from, to, without_turn_around, step_limit)
FindRoute ==
    /\ alive
    /\ \E from \in Ids : \E to \in Ids : \E wta \in BOOLEAN : \E limit \in Limits :
        Query("find_route", <<from, to, wta, limit>>,
              Graph_find_route(graph, from, to, wta, limit))

\* graph[key]
GetItem ==
    /\ alive
    /\ \E key \in Ids : Query("getitem", <<key>>, Graph_getitem(graph, key))

\* list(graph)
Iterate ==
    /\ alive
    /\ Query("iter", << >>, Graph_iter(graph))

\* len(graph)
Length ==
    /\ alive
    /\ Query("len", << >>, Graph_len(graph))

\* graph.find_nearest_node(lat, 0)
FindNearestNode ==
    /\ alive
    /\ \E lat \in Lats :
        Query("find_nearest_node", <<lat, 0>>, Graph_find_nearest_node(graph, lat, 0))

\* KDTree.build(graph)
BuildTree ==
    /\ Running
    /\ alive
    /\ ~tree.built
    /\ tree' = KDTree_build(graph)
    /\ res' = Call("kd_build", << >>, Return(0))
    /\ UNCHANGED <<graph, alive, ops>>

\* tree.find_nearest_node(lat, 0)
TreeFindNearestNode ==
    /\ tree.built
    /\ \E lat \in Lats :
        Query("kd_find_nearest_node", <<lat, 0>>, KDTree_find_nearest_node(tree, lat, 0))

\* graph.add_from_osm_file(filename, profile, format)
AddFromOsmFile ==
    \E doc \in Docs : \E format \in {FormatUnknown, FormatXml} :
        Mutate("add_from_osm_file", <<doc, format>>,
               Graph_add_from_osm_file(graph, doc, CarProfile, format, NoBBox))

\* graph.add_from_osm_memory(mv, profile, format)
AddFromOsmMemory ==
    \E doc \in Docs : \E format \in {FormatUnknown} :
        Mutate("add_from_osm_memory", <<doc, format>>,
               Graph_add_from_osm_memory(graph, doc, CarProfile, format, NoBBox))

\* py.py: Graph.__del__; the handle is released and not used again
ReleaseGraph ==
    /\ Running
    /\ alive
    /\ alive' = FALSE
    /\ graph' = EmptyGraph
    /\ res' = Call("del", << >>, Return(0))
    /\ UNCHANGED <<tree, ops>>

Next ==
    \/ SetItem
    \/ DelItem
    \/ SetEdge
    \/ DeleteEdge
    \/ AddFromOsmFile
    \/ AddFromOsmMemory
    \/ FindRoute
    \/ FindNearestNode
    \/ GetItem
    \/ Iterate
    \/ Length
    \/ BuildTree
    \/ TreeFindNearestNode
    \/ ReleaseGraph

Spec == Init /\ [][Next]_vars

(* ------------------------------ the claims ---------------------------- *)
\* the arguments of the find_route call that res holds
RFrom == res.args[1]
RTo == res.args[2]
RWta == res.args[3]
RLimit == res.args[4]
IsRoute == res.op = "find_route"
Stored(id) == id \in DOMAIN graph.nodes

\* every edge ends at a stored node and costs at least the great-circle
\* distance between its endpoints
EdgeInvariant(g) ==
    \A i \in DOMAIN g.edges : \A k \in 1 .. Len(g.edges[i]) :
        LET e == g.edges[i][k]
        IN  /\ e.to \in DOMAIN g.nodes
            /\ e.cost >= routex_earth_distance(g.nodes[i].lat, g.nodes[i].lon,
                                               g.nodes[e.to].lat, g.nodes[e.to].lon)

RECURSIVE Relaxed(_, _, _)
\* the reference search (Bellman-Ford): the least cost from the start to
\* every stored node over paths of at most k edges, Infinity when none
Relaxed(g, from, k) ==
    IF k = 0 THEN [n \in DOMAIN g.nodes |-> IF n = from THEN 0 ELSE Infinity]
    ELSE LET d == Relaxed(g, from, k - 1)
         IN  [n \in DOMAIN g.nodes |->
                 Min({d[n]} \cup
                     UNION {{d[m] + g.edges[m][j].cost :
                               j \in {x \in 1 .. Len(g.edges[m]) : g.edges[m][x].to = n}} :
                            m \in {m2 \in DOMAIN g.nodes : d[m2] < Infinity}})]

\* the least cost of a path between two stored nodes
MinCost(g, from, to) == Relaxed(g, from, Cardinality(DOMAIN g.nodes))[to]

Reachable(g, from, to) == MinCost(g, from, to) < Infinity

RECURSIVE PathCost(_, _)
\* the sum of the edge costs along a sequence of node ids
PathCost(g, path) ==
    IF Len(path) < 2 THEN 0
    ELSE routex_graph_get_edge(g, path[1], path[2]) + PathCost(g, Tail(path))

\* C1: on a graph whose edges all cost at least the distance between their
\* endpoints, find_route without turn-around suppression, between stored
\* nodes with the goal reachable and the default step limit, returns a path
\* whose cost is the least cost of any path (and [n] from n to n).
C1_Optimal ==
    (/\ IsRoute /\ ~RWta /\ RLimit = DEFAULT_STEP_LIMIT
     /\ Stored(RFrom) /\ Stored(RTo)
     /\ EdgeInvariant(graph)
     /\ Reachable(graph, RFrom, RTo))
    => /\ res.out.kind = "return"
       /\ Len(res.out.value) >= 1
       /\ PathCost(graph, res.out.value) = MinCost(graph, RFrom, RTo)
       /\ (RFrom = RTo => res.out.value = <<RFrom>>)

\* C2: find_route raises KeyError with the offending id when the start or
\* the goal is not stored, whatever the step limit, and names the start
\* when both are missing.
C2_InvalidReference ==
    (IsRoute /\ (~Stored(RFrom) \/ ~Stored(RTo)))
    => res.out = Raise("KeyError", IF ~Stored(RFrom) THEN RFrom ELSE RTo)

\* the search run to the end (no step limit to speak of)
Exhaustive == AStar(graph, RFrom, RTo, DEFAULT_STEP_LIMIT, RWta)

\* C3: between stored nodes with the goal not reachable, find_route returns
\* the empty list when the expansions that exhaust the open set fit the
\* step limit and raises StepLimitExceeded when they do not; every call
\* ends with a list, KeyError or StepLimitExceeded.
C3_StepLimit ==
    IsRoute =>
        /\ \/ res.out.kind = "return"
           \/ res.out.kind = "raise" /\ res.out.exc \in {"KeyError", "StepLimitExceeded"}
        /\ (/\ Stored(RFrom) /\ Stored(RTo)
            /\ ~Reachable(graph, RFrom, RTo)
            /\ Exhaustive.result = RouteOk(<< >>))
           => IF Exhaustive.steps <= RLimit
              THEN res.out = Return(<< >>)
              ELSE res.out = Raise("StepLimitExceeded", 0)

\* the native result behind the find_route call that res holds
NativeRoute == lib_find_route(find_route_func(RWta), graph, RFrom, RTo, RLimit)

\* C4: a non-empty list returned by find_route starts at the start, ends at
\* the goal and follows stored edges; a list is returned only for a native
\* Ok result, never for InvalidReference or StepLimitExceeded.
C4_CompletePath ==
    (IsRoute /\ res.out.kind = "return") =>
        LET path == res.out.value
        IN  /\ NativeRoute.type_ = 0
            /\ Len(path) = NativeRoute.len
            /\ path # << >> =>
                /\ path[1] = RFrom
                /\ path[Len(path)] = RTo
                /\ \A i \in 1 .. Len(path) - 1 :
                       Graph_get_edge(graph, path[i], path[i + 1]) # Infinity

\* C4 happens: a route over two edges was returned
C4_Witness ==
    /\ IsRoute /\ res.out.kind = "return"
    /\ Len(res.out.value) >= 3

\* C5: with turn-around suppression no returned path steps back to the node
\* it just left: path[i] # path[i + 2] for every i.
C5_NoTurnAround ==
    (IsRoute /\ RWta /\ res.out.kind = "return") =>
        \A i \in 1 .. Len(res.out.value) - 2 : res.out.value[i] # res.out.value[i + 2]

\* C5 happens: a path through a node that has an edge back to the node
\* before it, on a graph with a duplicate node of a turn restriction
C5_Witness ==
    /\ IsRoute /\ RWta /\ res.out.kind = "return"
    /\ Len(res.out.value) >= 3
    /\ Graph_get_edge(graph, res.out.value[2], res.out.value[1]) # Infinity
    /\ \E i \in DOMAIN graph.nodes : ~is_canonical(graph.nodes[i])

\* the graph a new Graph holds after TurnDoc is read into it
TurnGraph == Graph_add_from_osm_file(EmptyGraph, TurnDoc, CarProfile, FormatXml, NoBBox).graph

\* the first mutating call read TurnDoc into the new graph, and succeeded
TurnIngested ==
    /\ ops = 1
    /\ res.op \in {"add_from_osm_file", "add_from_osm_memory"}
    /\ res.args[1] = TurnDoc
    /\ res.out.kind = "return"

\* C6: after ways A-via, via-B, via-C and the restriction "no A, via, B"
\* are read into a new graph, some node other than via has via's osm_id,
\* A's edge leads to it and not to via, and it has an edge to C and none to
\* B; with turn-around suppression a route from A to C goes A, duplicate,
\* C, and no route from A to B goes from A through via's position straight
\* to B.
C6_TurnRestriction ==
    LET A == 1
        B == 2
        C == 3
        via == 4
        AtVia(id) == Stored(id) /\ graph.nodes[id].osm_id = via
    IN  /\ TurnIngested =>
            /\ {A, B, C, via} \subseteq DOMAIN graph.nodes
            /\ graph.nodes[via].osm_id = via
            /\ \E dup \in DOMAIN graph.nodes \ {via} :
                   /\ graph.nodes[dup].osm_id = via
                   /\ graph.nodes[dup].lat = graph.nodes[via].lat
                   /\ Graph_get_edge(graph, A, dup) # Infinity
                   /\ Graph_get_edge(graph, A, via) = Infinity
                   /\ Graph_get_edge(graph, dup, C) # Infinity
                   /\ Graph_get_edge(graph, dup, B) = Infinity
        /\ (IsRoute /\ RWta /\ graph = TurnGraph /\ RFrom = A) =>
            /\ (RTo = C /\ RLimit = DEFAULT_STEP_LIMIT) =>
                   /\ res.out.kind = "return"
                   /\ Len(res.out.value) = 3
                   /\ res.out.value[1] = A
                   /\ AtVia(res.out.value[2])
                   /\ res.out.value[3] = C
            /\ (RTo = B /\ res.out.kind = "return") =>
                   \A i \in 1 .. Len(res.out.value) - 2 :
                       ~(/\ res.out.value[i] = A
                         /\ AtVia(res.out.value[i + 1])
                         /\ res.out.value[i + 2] = B)
            /\ (RTo = B /\ RLimit = DEFAULT_STEP_LIMIT) =>
                   /\ res.out.kind = "return"
                   /\ Len(res.out.value) > 3

\* C6 happens: a route from A to B was found on the graph read from TurnDoc
C6_Witness ==
    /\ IsRoute /\ RWta /\ graph = TurnGraph
    /\ RFrom = 1 /\ RTo = 2
    /\ res.out.kind = "return"
    /\ Len(res.out.value) > 3

RECURSIVE TreePoints(_)
\* the nodes a k-d tree holds
TreePoints(t) ==
    IF t.leaf THEN {} ELSE {t.pivot} \cup TreePoints(t.left) \cup TreePoints(t.right)

\* C7: Graph.find_nearest_node and KDTree.find_nearest_node raise KeyError
\* when the graph, or the tree, holds no nodes; return the one canonical
\* node when exactly one is held, whatever the position asked for; and
\* never return a node that is not canonical. A tree is built from the
\* canonical nodes of the graph.
C7_NearestNode ==
    /\ res.op = "find_nearest_node" =>
        /\ DOMAIN graph.nodes = {} => res.out = Raise("KeyError", 0)
        /\ \A n \in CanonicalNodes(graph) :
               CanonicalNodes(graph) = {n} => res.out = Return(n)
        /\ res.out.kind = "return" =>
               /\ is_canonical(res.out.value)
               /\ res.out.value \in {graph.nodes[i] : i \in DOMAIN graph.nodes}
    /\ res.op = "kd_find_nearest_node" =>
        /\ TreePoints(tree.root) = {} => res.out = Raise("KeyError", 0)
        /\ \A n \in TreePoints(tree.root) :
               TreePoints(tree.root) = {n} => res.out = Return(n.id)
        /\ res.out.kind = "return" =>
               \E n \in TreePoints(tree.root) : n.id = res.out.value /\ is_canonical(n)
    /\ res.op = "kd_build" => TreePoints(tree.root) = CanonicalNodes(graph)

\* C7 happens: the canonical node was returned although a node that is not
\* canonical lies closer to the position asked for
C7_Witness ==
    /\ res.op = "find_nearest_node" /\ res.out.kind = "return"
    /\ \E i \in DOMAIN graph.nodes :
           /\ ~is_canonical(graph.nodes[i])
           /\ routex_earth_distance(res.args[1], res.args[2],
                                    graph.nodes[i].lat, graph.nodes[i].lon)
              < routex_earth_distance(res.args[1], res.args[2],
                                      res.out.value.lat, res.out.value.lon)

\* C8: once built, a KDTree answers every query the same way whatever is
\* done to the graph afterwards: nodes added, moved or deleted, edges
\* changed, files read, the graph released.  (A step that changes neither
\* the tree nor the graph has nothing to change an answer with.)
C8_Snapshot ==
    [][tree.built =>
        \/ tree' = tree /\ graph' = graph
        \/ /\ tree'.built
           /\ \A lat \in Lats :
                  KDTree_find_nearest_node(tree, lat, 0)' = KDTree_find_nearest_node(tree, lat, 0)]_vars

\* C8 happens: the tree returned a node that the graph no longer holds
C8_Witness ==
    /\ res.op = "kd_find_nearest_node" /\ res.out.kind = "return"
    /\ tree.built
    /\ ops > 0
    /\ res.out.value \notin DOMAIN graph.nodes

\* C9: graph[id] = node for a stored id replaces the node record only: every
\* node keeps its outgoing edges, costs as they were, so the edges from and
\* to the overwritten node stay, and no other node changes.
C9_Overwrite ==
    [][(/\ res'.op = "setitem"
        /\ res'.out.kind = "return"
        /\ res'.args[1] \in DOMAIN graph.nodes)
       => /\ DOMAIN graph'.nodes = DOMAIN graph.nodes
          /\ graph'.nodes[res'.args[1]] = res'.args[2]
          /\ \A i \in DOMAIN graph.nodes :
                 /\ Graph_get_edges(graph', i) = Graph_get_edges(graph, i)
                 /\ i # res'.args[1] => graph'.nodes[i] = graph.nodes[i]]_vars

\* C9 happens: after an assignment the node has an edge that costs less
\* than the distance to its target
C9_Witness ==
    /\ res.op = "setitem" /\ res.out.kind = "return"
    /\ \E k \in 1 .. Len(Graph_get_edges(graph, res.args[1])) :
           LET e == Graph_get_edges(graph, res.args[1])[k]
           IN  /\ e.to \in DOMAIN graph.nodes
               /\ e.cost < routex_earth_distance(res.args[2].lat, res.args[2].lon,
                                                 graph.nodes[e.to].lat, graph.nodes[e.to].lon)

\* C10: del graph[id] removes a stored node and returns, and raises
\* KeyError(id) and changes nothing when the id is not stored; no other
\* node and no other node's edges change, so edges to the deleted node
\* stay; a KeyError from a route search between stored nodes names the
\* missing target of a stored edge.
C10_Delete ==
    [][/\ res'.op = "delitem" =>
           /\ res'.args[1] \in DOMAIN graph.nodes =>
                  /\ res'.out = Return(0)
                  /\ DOMAIN graph'.nodes = DOMAIN graph.nodes \ {res'.args[1]}
           /\ res'.args[1] \notin DOMAIN graph.nodes =>
                  /\ res'.out = Raise("KeyError", res'.args[1])
                  /\ graph' = graph
           /\ \A i \in DOMAIN graph.nodes \ {res'.args[1]} :
                  /\ graph'.nodes[i] = graph.nodes[i]
                  /\ Graph_get_edges(graph', i) = Graph_get_edges(graph, i)
       /\ (/\ res'.op = "find_route" /\ res'.out.kind = "raise"
           /\ res'.out.exc = "KeyError"
           /\ res'.args[1] \in DOMAIN graph'.nodes
           /\ res'.args[2] \in DOMAIN graph'.nodes)
          => /\ res'.out.arg \notin DOMAIN graph'.nodes
             /\ \E i \in DOMAIN graph'.nodes :
                    Graph_get_edge(graph', i, res'.out.arg) # Infinity]_vars

\* C10 happens: a node was deleted and an edge to it is still stored
C10_Witness ==
    /\ res.op = "delitem" /\ res.out.kind = "return"
    /\ \E i \in DOMAIN graph.nodes : Graph_get_edge(graph, i, res.args[1]) # Infinity

\* the edges from a node to a target, as positions in get_edges
EdgesTo(g, from, to) ==
    {k \in 1 .. Len(Graph_get_edges(g, from)) : Graph_get_edges(g, from)[k].to = to}

\* the ids callers and ingested documents use, stored or not
AnyIds == Ids \cup DOMAIN graph.nodes \cup DOMAIN graph'.nodes

\* no edge other than from -> to and no node differs between two graphs
OtherEdgesKept(g, h, from, to) ==
    /\ h.nodes = g.nodes
    /\ \A i \in AnyIds : \A t \in AnyIds :
           (i # from \/ t # to) => Graph_get_edge(h, i, t) = Graph_get_edge(g, i, t)
    /\ \A i \in AnyIds \ {from} : Graph_get_edges(h, i) = Graph_get_edges(g, i)

\* what set_edge and delete_edge answer and leave behind, whatever `from`
EdgeLawCommon ==
    /\ res'.op = "set_edge" =>
           /\ res'.out = Return(Graph_get_edge(graph, res'.args[1], res'.args[2]) # Infinity)
           /\ OtherEdgesKept(graph, graph', res'.args[1], res'.args[2])
    /\ res'.op = "delete_edge" =>
           /\ Graph_get_edge(graph', res'.args[1], res'.args[2]) = Infinity
           /\ (res'.out = Raise("KeyError", <<res'.args[1], res'.args[2]>>))
              <=> (Graph_get_edge(graph, res'.args[1], res'.args[2]) = Infinity
                   /\ ~res'.args[3])
           /\ res'.out.kind = "raise" => graph' = graph
           /\ OtherEdgesKept(graph, graph', res'.args[1], res'.args[2])
    /\ \A i \in Ids \ DOMAIN graph'.nodes :
           /\ Graph_get_edges(graph', i) = << >>
           /\ \A t \in Ids : Graph_get_edge(graph', i, t) = Infinity

\* after set_edge the edge is there once, with the cost given
EdgeStored ==
    /\ Graph_get_edge(graph', res'.args[1], res'.args[2]) = res'.args[3]
    /\ Cardinality(EdgesTo(graph', res'.args[1], res'.args[2])) = 1

\* C11 as amended: for a stored node `from`, after set_edge(from, to, cost)
\* get_edge(from, to) is cost and get_edges(from) holds one edge to `to`;
\* set_edge returns True exactly when the edge existed; after delete_edge
\* get_edge is +infinity; delete_edge raises KeyError exactly when the edge
\* was absent and missing_ok is False; get_edges of an absent node is empty
\* and get_edge of an absent edge +infinity; no other edge and no node
\* changes.  For a node `from` that is not stored set_edge stores nothing.
C11_EdgeMap ==
    [][/\ EdgeLawCommon
       /\ (res'.op = "set_edge" /\ res'.args[1] \in DOMAIN graph.nodes) => EdgeStored
       /\ (res'.op = "set_edge" /\ res'.args[1] \notin DOMAIN graph.nodes) => graph' = graph]_vars

\* C11 as written: the same law for every `from`, stored or not
C11_EdgeMapAnyFrom ==
    [][/\ EdgeLawCommon
       /\ res'.op = "set_edge" => EdgeStored]_vars

\* C11 happens: set_edge replaced the cost of an edge that was there
C11_Witness ==
    /\ res.op = "set_edge" /\ res.out = Return(TRUE)
    /\ Graph_get_edge(graph, res.args[1], res.args[2]) = res.args[3]
    /\ Len(Graph_get_edges(graph, res.args[1])) >= 2

IngestOps == {"add_from_osm_file", "add_from_osm_memory"}

\* the consecutive node pairs of the usable ways of a document that come
\* before its failure point
PairsBeforeFailure(doc) ==
    UNION {{<<doc.ways[w].nodes[k], doc.ways[w].nodes[k + 1]>> :
              k \in 1 .. Len(doc.ways[w].nodes) - 1} :
           w \in {v \in 1 .. doc.bad - 1 : WayUsable(CarProfile, doc.ways[v].tags)}}

\* C12: an ingest call returns or raises OsmLoadingError; a call that fails
\* at a way of the document leaves the nodes and edges of the ways before
\* it in the graph; no ingest call, failing or not, removes a node that was
\* in the graph before it.
C12_NotTransactional ==
    [][res'.op \in IngestOps =>
        /\ res'.out \in {Return(0), Raise("OsmLoadingError", 0)}
        /\ DOMAIN graph.nodes \subseteq DOMAIN graph'.nodes
        /\ res'.out.kind = "return" <=>
               /\ res'.args[1].bad = 0
               /\ res'.args[2] \in {FormatUnknown, res'.args[1].format}
        /\ (/\ res'.out.kind = "raise"
            /\ res'.args[2] \in {FormatUnknown, res'.args[1].format})
           => \A pair \in PairsBeforeFailure(res'.args[1]) :
                  /\ {pair[1], pair[2]} \subseteq DOMAIN graph'.nodes
                  /\ Graph_get_edge(graph', pair[1], pair[2]) # Infinity]_vars

\* C12 happens: a call on a new graph failed and the graph holds nodes
C12_Witness ==
    /\ res.op = "add_from_osm_file" /\ res.out = Raise("OsmLoadingError", 0)
    /\ ops = 1
    /\ DOMAIN graph.nodes # {}
    /\ \E i \in DOMAIN graph.nodes : Graph_get_edges(graph, i) # << >>

RECURSIVE FirstRule(_, _, _)
\* the multiplier of the first rule, from position i of the caller's list,
\* whose key and value a way's tags carry; 0 when there is none
FirstRule(rules, tags, i) ==
    IF i > Len(rules) THEN 0
    ELSE IF rules[i].key \in DOMAIN tags /\ tags[rules[i].key] = rules[i].value
    THEN rules[i].penalty
    ELSE FirstRule(rules, tags, i + 1)

\* the ways of a document that an ingest call with a format gets to read
WaysRead(doc, format) ==
    IF format \notin {FormatUnknown, doc.format} THEN {}
    ELSE IF doc.bad # 0 THEN 1 .. doc.bad - 1
    ELSE 1 .. Len(doc.ways)

\* the ways read that the car profile uses: access is allowed, the way is
\* no motorroad and a penalty rule matches
WaysUsed(doc, format) ==
    {w \in WaysRead(doc, format) :
        /\ AccessAllowed(CarProfile, doc.ways[w].tags)
        /\ ~("motorroad" \in DOMAIN doc.ways[w].tags)
        /\ FirstRule(CarProfile.penalties, doc.ways[w].tags, 1) # 0}

\* the nodes of the ways used
NodesUsed(doc, format) ==
    UNION {{doc.ways[w].nodes[k] : k \in 1 .. Len(doc.ways[w].nodes)} :
           w \in WaysUsed(doc, format)}

\* the graph has an edge with a cost from a to b, or to a duplicate of b
\* made for a turn restriction of the document
EdgeWithCost(g, doc, a, b, cost) ==
    \/ Graph_get_edge(g, a, b) = cost
    \/ /\ doc.relations # << >>
       /\ \E t \in DOMAIN g.nodes :
              /\ g.nodes[t].osm_id = b /\ t # b
              /\ g.nodes[t].lat = g.nodes[b].lat
              /\ Graph_get_edge(g, a, t) = cost

\* C13: an ingest call gives every consecutive node pair of a usable way an
\* edge whose cost is the distance between the two nodes times the
\* multiplier of the first rule of the profile's list that the way's tags
\* match, so never less than the distance; a way that matches no rule adds
\* no node and no edge.
C13_FirstMatch ==
    [][res'.op \in IngestOps =>
        LET doc == res'.args[1]
            format == res'.args[2]
        IN  /\ \A w \in WaysUsed(doc, format) :
                   \A k \in 1 .. Len(doc.ways[w].nodes) - 1 :
                       LET a == doc.ways[w].nodes[k]
                           b == doc.ways[w].nodes[k + 1]
                           m == FirstRule(CarProfile.penalties, doc.ways[w].tags, 1)
                       IN  /\ {a, b} \subseteq DOMAIN graph'.nodes
                           /\ m >= 1
                           /\ LET d == routex_earth_distance(
                                           graph'.nodes[a].lat, graph'.nodes[a].lon,
                                           graph'.nodes[b].lat, graph'.nodes[b].lon)
                              IN  /\ EdgeWithCost(graph', doc, a, b, d * m)
                                  /\ d * m >= d
            /\ \A i \in DOMAIN doc.nodes \ NodesUsed(doc, format) :
                   /\ i \in DOMAIN graph'.nodes <=> i \in DOMAIN graph.nodes
                   /\ Graph_get_edges(graph', i) = Graph_get_edges(graph, i)
                   /\ \A j \in DOMAIN graph.nodes :
                          Graph_get_edge(graph', j, i) = Graph_get_edge(graph, j, i)]_vars

\* C13 happens: a way that matches two rules got the multiplier of the one
\* that comes first in the list, and a way that matches none added nothing
C13_Witness ==
    /\ res.op \in IngestOps /\ res.out.kind = "return"
    /\ res.args[1] = TagsDoc
    /\ ops = 1
    /\ Graph_get_edge(graph, 1, 2) = 2
    /\ 3 \notin DOMAIN graph.nodes

\* what find_route makes of a native result: a list, KeyError with the id
\* or StepLimitExceeded
Decoded(r) ==
    IF r.type_ = 0 THEN Return(r.nodes)
    ELSE IF r.type_ = 1 THEN Raise("KeyError", r.invalid_node_id)
    ELSE Raise("StepLimitExceeded", 0)

\* C14: find_route ends as the plain search (routex_find_route) ends when
\* without_turn_around is False and as the search without turn-arounds
\* ends when it is True: with a list, KeyError or StepLimitExceeded; and
\* the native result is released once.
C14_Dispatch ==
    IsRoute =>
        /\ ~RWta => res.out = Decoded(routex_find_route(graph, RFrom, RTo, RLimit))
        /\ RWta => res.out = Decoded(routex_find_route_without_turn_around(
                                         graph, RFrom, RTo, RLimit))
        /\ route_result_deletes(graph, RFrom, RTo, RWta, RLimit) = 1

\* C15: graph[key] = node with key # node.id raises ValueError and leaves
\* the graph as it was, so nothing is stored under key or under node.id;
\* with key = node.id the node is stored as given, whatever it holds.
C15_KeyCheck ==
    [][res'.op = "setitem" =>
        /\ res'.args[1] # res'.args[2].id =>
               /\ res'.out = Raise("ValueError", res'.args[1])
               /\ graph' = graph
        /\ res'.args[1] = res'.args[2].id =>
               /\ res'.out = Return(0)
               /\ Graph_getitem(graph', res'.args[1]) = Return(res'.args[2])]_vars

\* C15 happens: a write under another key was refused although the graph
\* holds the key and not the id
C15_Witness ==
    /\ res.op = "setitem" /\ res.out.kind = "raise"
    /\ res.out.exc = "ValueError"
    /\ res.args[1] \in DOMAIN graph.nodes
    /\ res.args[2].id \notin DOMAIN graph.nodes

====
